---- MODULE Spec2Model ----
(***************************************************************************)
(* A model of rustix's path::DecInt (src/path/dec_int.rs): an integer is   *)
(* formatted in decimal into a 21-byte stack buffer of MaybeUninit<u8>,    *)
(* NUL-terminated, and read back through borrowed views.                   *)
(*                                                                         *)
(* Integers are kept at their width.  A value of an integer type is its    *)
(* two's complement bit pattern, a big-endian sequence of bytes (TLC's own *)
(* integers are 32 bits wide, so 64- and 128-bit values are never turned   *)
(* into one number).  Text is a sequence of bytes (ASCII codes).           *)
(***************************************************************************)
EXTENDS Integers, Sequences, FiniteSets, TLC

\* Number of DecInt values the caller holds at a time.
NSlots == 2

\* How far from an edge (zero, a power of ten, the signed minimum) the values
\* the constructors are called with lie.
NearEdge == 1

\* ------------------------------------------------------------------------
\* Bytes and fixed-width unsigned arithmetic on big-endian byte sequences
\* ------------------------------------------------------------------------

Byte == 0..255

Front(s) == SubSeq(s, 1, Len(s) - 1)

Last(s) == s[Len(s)]

Fill(k, b) == [j \in 1..k |-> b]

\* `n / d` and `n % d` for a small divisor d, by long division from the
\* most significant byte.
RECURSIVE LongDiv(_, _, _, _)
LongDiv(n, d, rem, q) ==
    IF n = <<>> THEN [quot |-> q, rem |-> rem]
    ELSE LET cur == rem * 256 + Head(n)
         IN  LongDiv(Tail(n), d, cur % d, Append(q, cur \div d))

DivMod(n, d) == LongDiv(n, d, 0, <<>>)

\* `n * m + a` for small m and a, with the carry out of the top byte.
RECURSIVE MulAdd(_, _, _)
MulAdd(n, m, a) ==
    IF n = <<>> THEN [val |-> <<>>, carry |-> a]
    ELSE LET t    == Last(n) * m + a
             rest == MulAdd(Front(n), m, t \div 256)
         IN  [val |-> Append(rest.val, t % 256), carry |-> rest.carry]

\* `!n`
Not(n) == [j \in 1..Len(n) |-> 255 - n[j]]

\* `(!n).wrapping_add(1)`: the carry out of the top byte is dropped.
WrappingNeg(n) == MulAdd(Not(n), 1, 1).val

IsZero(n) == \A j \in 1..Len(n) : n[j] = 0

\* n fits in its two low bytes.
IsSmall(n) == \A j \in 1..Len(n) - 2 : n[j] = 0

\* The value of the two low bytes of n (of the one byte of a u8).
Low16(n) == IF Len(n) = 1 THEN n[1] ELSE n[Len(n) - 1] * 256 + n[Len(n)]

\* `n >= k` for k < 65536.
GeSmall(n, k) == ~IsSmall(n) \/ Low16(n) >= k

\* ------------------------------------------------------------------------
\* The integer types (itoa::Integer is sealed: these twelve and no other)
\* ------------------------------------------------------------------------

Types == {"i8", "u8", "i16", "u16", "i32", "u32", "i64", "u64",
          "i128", "u128", "isize", "usize"}

SignedTypes == {"i8", "i16", "i32", "i64", "i128", "isize"}

PointerWidths == {16, 32, 64}

\* `bits` of DecInt::new: the match on TypeId::of::<Int>().  0 stands for
\* the `_ => unreachable!()` arm.
TypeBits(T, ptr) ==
    CASE T \in {"i8", "u8"}       -> 8
      [] T \in {"i16", "u16"}     -> 16
      [] T \in {"i32", "u32"}     -> 32
      [] T \in {"i64", "u64"}     -> 64
      [] T \in {"i128", "u128"}   -> 128
      [] T \in {"isize", "usize"} -> ptr
      [] OTHER                    -> 0

\* MaxBufSize with the lengths of the signed maxima, which have no sign.
MaxBufSize_NoSign(bits) ==
    CASE bits = 8   -> Len("127")
      [] bits = 16  -> Len("32767")
      [] bits = 32  -> Len("2147483647")
      [] bits = 64  -> Len("9223372036854775807")
      [] bits = 128 -> Len("170141183460469231731687303715884105727")
      [] OTHER      -> 0

\* `max_buf_size` of DecInt::new: the match on `bits`.  0 stands for the
\* `_ => unreachable!()` arm.
MaxBufSize(bits) ==
    CASE bits = 8   -> Len("-128")
      [] bits = 16  -> Len("-32768")
      [] bits = 32  -> Len("-2147483648")
      [] bits = 64  -> Len("-9223372036854775808")
      [] bits = 128 -> Len("-170141183460469231731687303715884105728")
      [] OTHER      -> 0

\* The length of DecInt's buffer: "-9223372036854775808\0".len().
BufLen == Len("-9223372036854775808") + 1

\* ------------------------------------------------------------------------
\* itoa::Buffer::format
\* ------------------------------------------------------------------------

Minus == 45
Zero == 48
Nul == 0

\* `self >= 0`
IsNonNegative(T, bits) == T \notin SignedTypes \/ bits[1] < 128

\* `self as $conv_fn`: the value is widened to u32 (to u64, to u128) before
\* the digits are taken, sign-extended when the type is signed.
ConvBytes(n) == IF Len(n) <= 4 THEN 4 ELSE IF Len(n) <= 8 THEN 8 ELSE 16

Widen(T, bits) ==
    Fill(ConvBytes(bits) - Len(bits),
         IF IsNonNegative(T, bits) THEN 0 ELSE 255) \o bits

\* Two digits of DEC_DIGITS_LUT, for 0 <= x < 100.
Lut(x) == <<Zero + (x \div 10), Zero + (x % 10)>>

\* `while n >= 10000 { ... }`: four digits at a time, written leftwards.
RECURSIVE Chunks(_, _)
Chunks(n, text) ==
    IF GeSmall(n, 10000)
    THEN LET qr == DivMod(n, 10000)
         IN  Chunks(qr.quot, Lut(qr.rem \div 100) \o Lut(qr.rem % 100) \o text)
    ELSE [n |-> Low16(n), text |-> text]

\* The rest of the digits, 0 <= n < 10000.
Tail4(n, text) ==
    LET t1 == IF n >= 100 THEN Lut(n % 100) \o text ELSE text
        n1 == IF n >= 100 THEN n \div 100 ELSE n
    IN  IF n1 < 10 THEN <<Zero + n1>> \o t1 ELSE Lut(n1) \o t1

\* Buffer::format(i).  (For a 128-bit type the crate takes the digits 19 at a
\* time; they are the same digits.)
Format(T, bits) ==
    LET nonneg == IsNonNegative(T, bits)
        n      == IF nonneg THEN Widen(T, bits) ELSE WrappingNeg(Widen(T, bits))
        \* the 4-digit loop needs a type of at least 16 bits
        c      == IF Len(bits) >= 2 THEN Chunks(n, <<>>)
                  ELSE [n |-> Low16(n), text |-> <<>>]
        digits == Tail4(c.n, c.text)
    IN  IF nonneg THEN digits ELSE <<Minus>> \o digits

\* ------------------------------------------------------------------------
\* DecInt
\* ------------------------------------------------------------------------

\* What stale stack memory may hold where a buffer is placed: a NUL or a
\* digit, the two values that could pass for text or for a terminator.
Garbage == {0, 55}

\* A cell of `buf: [MaybeUninit<u8>; 21]`.  An uninitialized cell holds
\* whatever the memory held before.
Uninit(g) == [init |-> FALSE, val |-> g]

Written(b) == [init |-> TRUE, val |-> b]

NoHandle == [len |-> -1, buf |-> <<>>]

\* NewBuf with room for the text of u64::MAX, a sign and a terminator.
NewBuf_22(g) == [j \in 1..22 |-> Uninit(g)]

\* NewBuf without the room for the terminator.
NewBuf_20(g) == [j \in 1..20 |-> Uninit(g)]

\* `[MaybeUninit::uninit(); 21]`, on memory holding g.
NewBuf(g) == [j \in 1..21 |-> Uninit(g)]

\* CopyAndTerminate terminating with the digit '0'.
CopyAndTerminate_Digit(buf, str_buf) ==
    [j \in 1..Len(buf) |->
        IF j <= Len(str_buf) THEN Written(str_buf[j])
        ELSE IF j = Len(str_buf) + 1 THEN Written(Zero)
        ELSE buf[j]]

\* CopyAndTerminate without the terminator.
CopyAndTerminate_None(buf, str_buf) ==
    [j \in 1..Len(buf) |->
        IF j <= Len(str_buf) THEN Written(str_buf[j]) ELSE buf[j]]

\* `buf[..str_buf.len()].copy_from_slice(str_buf)` and then
\* `buf[str_buf.len()] = MaybeUninit::new(0)`.
CopyAndTerminate(buf, str_buf) ==
    [j \in 1..Len(buf) |->
        IF j <= Len(str_buf) THEN Written(str_buf[j])
        ELSE IF j = Len(str_buf) + 1 THEN Written(Nul)
        ELSE buf[j]]

\* DecInt::new::<T>(i), on memory holding g: the set of its outcomes.  It is
\* one outcome except past `unreachable_unchecked`, where the build may do
\* anything: here it aborts, or goes on as if the check were not there.
DecIntNew(T, ptr, i, g) ==
    LET buf          == NewBuf(g)
        str_buf      == Format(T, i)
        bits         == TypeBits(T, ptr)
        max_buf_size == MaxBufSize(bits)
        self         == [len |-> Len(str_buf),
                         buf |-> CopyAndTerminate(buf, str_buf)]
    IN  IF bits = 0 \/ max_buf_size = 0
        THEN {[outcome |-> "panic_unreachable", self |-> NoHandle]}
        ELSE IF Len(str_buf) > max_buf_size
        THEN {[outcome |-> "undefined", self |-> NoHandle],
              [outcome |-> "undefined", self |-> self]}
        ELSE IF ~(Len(str_buf) < Len(buf))
        THEN {[outcome |-> "panic_unsupported", self |-> NoHandle]}
        \* `buf[str_buf.len()]` is bounds-checked
        ELSE IF Len(str_buf) >= Len(buf)
        THEN {[outcome |-> "panic_index", self |-> NoHandle]}
        ELSE {[outcome |-> "ok", self |-> self]}

\* `fd.as_fd().as_raw_fd()`: RawFd is c_int, an i32.
RawFdType == "i32"

\* DecIntFromFd taking the raw value as unsigned.
DecIntFromFd_Unsigned(ptr, raw, g) == DecIntNew("u32", ptr, raw, g)

\* DecInt::from_fd(fd), for a descriptor whose raw value is raw.
DecIntFromFd(ptr, raw, g) == DecIntNew(RawFdType, ptr, raw, g)

\* #[derive(Clone)]: the buffer and the length are copied.  The copy of an
\* uninitialized cell is uninitialized: it holds what its own memory held.
DecIntClone(self, g) ==
    [len |-> self.len,
     buf |-> [j \in 1..Len(self.buf) |->
                IF self.buf[j].init THEN self.buf[j] ELSE Uninit(g)]]

\* A borrowed view: the bytes it shows, the indices of `buf` (from 0) it
\* reads, and whether the call went through (no panic, and the precondition
\* of the unchecked conversion it rests on held).
View(bytes, reads, sound) == [bytes |-> bytes, reads |-> reads, sound |-> sound]

\* as_bytes_with_nul over the whole buffer, `&self.buf[..]`.
as_bytes_with_nul_Whole(self) ==
    View([j \in 1..Len(self.buf) |-> self.buf[j].val], 0..Len(self.buf) - 1,
         \A j \in 1..Len(self.buf) : self.buf[j].init)

\* `&self.buf[..=self.len]`, transmuted to &[u8].  The slice panics when it
\* ends past the buffer.
as_bytes_with_nul(self) ==
    IF self.len + 1 > Len(self.buf)
    THEN View(<<>>, {}, FALSE)
    ELSE View([j \in 1..self.len + 1 |-> self.buf[j].val], 0..self.len,
              \A j \in 1..self.len + 1 : self.buf[j].init)

\* as_bytes dropping the first byte, `&bytes[1..]`.
as_bytes_DropFirst(self) ==
    LET bytes == as_bytes_with_nul(self)
    IN  IF Len(bytes.bytes) = 0 THEN View(<<>>, bytes.reads, FALSE)
        ELSE View(Tail(bytes.bytes), bytes.reads, bytes.sound)

\* `&bytes[..bytes.len() - 1]`
as_bytes(self) ==
    LET bytes == as_bytes_with_nul(self)
    IN  IF Len(bytes.bytes) = 0 THEN View(<<>>, bytes.reads, FALSE)
        ELSE View(SubSeq(bytes.bytes, 1, Len(bytes.bytes) - 1), bytes.reads,
                  bytes.sound)

\* core::str::from_utf8(bytes).is_ok(), from index j on.
RECURSIVE IsUtf8From(_, _)
IsUtf8From(bytes, j) ==
    LET n       == Len(bytes)
        b       == bytes[j]
        cont(k) == k <= n /\ bytes[k] \in 128..191
    IN  IF j > n THEN TRUE
        ELSE IF b < 128 THEN IsUtf8From(bytes, j + 1)
        ELSE IF b \in 194..223 THEN cont(j + 1) /\ IsUtf8From(bytes, j + 2)
        ELSE IF b \in 224..239
        THEN /\ cont(j + 1) /\ cont(j + 2)
             /\ (b = 224 => bytes[j + 1] >= 160)
             /\ (b = 237 => bytes[j + 1] <= 159)
             /\ IsUtf8From(bytes, j + 3)
        ELSE IF b \in 240..244
        THEN /\ cont(j + 1) /\ cont(j + 2) /\ cont(j + 3)
             /\ (b = 240 => bytes[j + 1] >= 144)
             /\ (b = 244 => bytes[j + 1] <= 143)
             /\ IsUtf8From(bytes, j + 4)
        ELSE FALSE

IsUtf8(bytes) == IsUtf8From(bytes, 1)

\* as_str over the bytes with their terminator.
as_str_WithNul(self) ==
    LET bytes == as_bytes_with_nul(self)
    IN  View(bytes.bytes, bytes.reads, bytes.sound /\ IsUtf8(bytes.bytes))

\* `core::str::from_utf8_unchecked(self.as_bytes())`
as_str(self) ==
    LET bytes == as_bytes(self)
    IN  View(bytes.bytes, bytes.reads, bytes.sound /\ IsUtf8(bytes.bytes))

\* `CStr::from_bytes_with_nul(bytes).is_ok()`: a NUL at the end and no other.
FromBytesWithNulIsOk(bytes) ==
    /\ Len(bytes) > 0
    /\ bytes[Len(bytes)] = Nul
    /\ \A j \in 1..Len(bytes) - 1 : bytes[j] # Nul

\* `CStr::from_bytes_with_nul_unchecked(bytes_with_nul)`, after the
\* debug_assert!.
as_c_str(self) ==
    LET bytes_with_nul == as_bytes_with_nul(self)
    IN  View(bytes_with_nul.bytes, bytes_with_nul.reads,
             bytes_with_nul.sound /\ FromBytesWithNulIsOk(bytes_with_nul.bytes))

\* as_ref over the bytes with their terminator.
as_ref_WithNul(self) == as_bytes_with_nul(self)

\* AsRef<Path>: OsStrExt::from_bytes and Path::new reinterpret the bytes.
as_ref(self) == as_bytes(self)

HexDigit(d) == IF d < 10 THEN Zero + d ELSE 97 + (d - 10)

\* char::escape_debug of an ASCII character, as <str as Debug>::fmt uses it.
EscapeDebug(b) ==
    CASE b = 0  -> <<92, 48>>
      [] b = 9  -> <<92, 116>>
      [] b = 10 -> <<92, 110>>
      [] b = 13 -> <<92, 114>>
      [] b = 34 -> <<92, 34>>
      [] b = 92 -> <<92, 92>>
      [] b < 32 \/ b = 127 ->
            <<92, 117, 123>> \o
            (IF b >= 16 THEN <<HexDigit(b \div 16)>> ELSE <<>>) \o
            <<HexDigit(b % 16), 125>>
      [] OTHER  -> <<b>>

RECURSIVE EscapeAll(_)
EscapeAll(bytes) ==
    IF bytes = <<>> THEN <<>> ELSE EscapeDebug(Head(bytes)) \o EscapeAll(Tail(bytes))

\* Debug: `self.as_str().fmt(f)`, the text between double quotes.
fmt(self) ==
    LET str == as_str(self)
    IN  View(<<34>> \o EscapeAll(str.bytes) \o <<34>>, str.reads, str.sound)

\* ------------------------------------------------------------------------
\* The values DecInt::new is called with
\* ------------------------------------------------------------------------

TypeBytes(T, ptr) == TypeBits(T, ptr) \div 8

One(B) == Fill(B - 1, 0) \o <<1>>

\* 1, 10, 100, ... as far as B bytes hold them.
RECURSIVE PowersOfTen(_, _)
PowersOfTen(p, acc) ==
    LET next == MulAdd(p, 10, 0)
    IN  IF next.carry # 0 THEN acc \cup {p}
        ELSE PowersOfTen(next.val, acc \cup {p})

\* `n.wrapping_add(d)` and `n.wrapping_sub(d)`
WrappingAdd(n, d) == MulAdd(n, 1, d).val

WrappingSub(n, d) == WrappingNeg(WrappingAdd(WrappingNeg(n), d))

\* The signed minimum, which is the unsigned 2^(8B-1).
SignedMin(B) == <<128>> \o Fill(B - 1, 0)

\* Where the text changes its length or its sign: zero, the signed minimum
\* (next to the signed maximum), the powers of ten and the same negated.
Edges(B) ==
    LET pow == PowersOfTen(One(B), {})
    IN  {Fill(B, 0), SignedMin(B)} \cup pow \cup {WrappingNeg(x) : x \in pow}

Near(E, dist) ==
    UNION {{WrappingAdd(x, d), WrappingSub(x, d)} : <<x, d>> \in E \X (0..dist)}

\* 42 and -42, and 9876 (the example of DecInt's documentation) where 16 or
\* more bits hold it.
FortyTwo(B) == Fill(B - 1, 0) \o <<42>>

MinusFortyTwo(B) == Fill(B - 1, 255) \o <<214>>

Doc9876(B) == IF B = 1 THEN FortyTwo(B) ELSE Fill(B - 2, 0) \o <<38, 148>>

Examples(B) == {FortyTwo(B), MinusFortyTwo(B), Doc9876(B)}

\* Every value of an 8-bit type; of a wider type, the values near an edge.
Values(B) ==
    IF B = 1 THEN {<<b>> : b \in Byte}
    ELSE Near(Edges(B), NearEdge) \cup Examples(B)

\* 0, 1, -1 (the unsigned maximum), the signed minimum and maximum, -42 and
\* the documentation's example.
PairValues(B) ==
    {Fill(B, 0), One(B), Fill(B, 255), SignedMin(B), WrappingSub(SignedMin(B), 1),
     MinusFortyTwo(B), Doc9876(B)}

\* The types with the pointer widths of their targets.  The pointer width
\* decides nothing for a type that is not isize or usize, and is 64 for those.
Targets ==
    ((Types \ {"isize", "usize"}) \X {64}) \cup ({"isize", "usize"} \X PointerWidths)

\* A call's type, its target's pointer width and its argument.
Inputs ==
    UNION {{[ty |-> tp[1], ptr |-> tp[2], bits |-> b] :
              b \in Values(TypeBytes(tp[1], tp[2]))} : tp \in Targets}

PairInputs ==
    UNION {{[ty |-> tp[1], ptr |-> tp[2], bits |-> b] :
              b \in PairValues(TypeBytes(tp[1], tp[2]))} : tp \in Targets}

\* ------------------------------------------------------------------------
\* The state machine
\* ------------------------------------------------------------------------

VARIABLES
    input,    \* the integer the handles are made from: [ty, ptr, bits]
    slots,    \* the DecInt values the caller holds, NoHandle where none
    origin,   \* how each was made: "new", "from_fd" (a clone keeps its source's)
    last      \* the last call: its name, its slot, its outcome, its view

vars == <<input, slots, origin, last>>

Slots == 1..NSlots

NoView == View(<<>>, {}, TRUE)

Call(op, s, outcome, view) ==
    [op |-> op, slot |-> s, outcome |-> outcome, view |-> view]

Init ==
    /\ input \in Inputs
    /\ slots = [s \in Slots |-> NoHandle]
    /\ origin = [s \in Slots |-> "none"]
    /\ last = Call("none", 0, "none", NoView)

\* A constructor's outcome r lands in the empty slot s.  A panic returns no
\* handle.
Construct(s, op, r) ==
    /\ slots[s] = NoHandle
    /\ IF r.self = NoHandle
       THEN UNCHANGED <<slots, origin>>
       ELSE /\ slots' = [slots EXCEPT ![s] = r.self]
            /\ origin' = [origin EXCEPT ![s] = op]
    /\ last' = Call(op, s, r.outcome, NoView)
    /\ UNCHANGED input

\* let h = DecInt::new(i);
New(s) ==
    \E g \in Garbage :
        \E r \in DecIntNew(input.ty, input.ptr, input.bits, g) :
            Construct(s, "new", r)

\* let h = DecInt::from_fd(fd);  A BorrowedFd never holds -1.
FromFd(s) ==
    /\ input.ty = RawFdType
    /\ input.bits # Fill(Len(input.bits), 255)
    /\ \E g \in Garbage :
        \E r \in DecIntFromFd(input.ptr, input.bits, g) :
            Construct(s, "from_fd", r)

\* let h2 = h.clone();
Clone(s, t) ==
    /\ slots[s] # NoHandle
    /\ slots[t] = NoHandle
    /\ \E g \in Garbage :
          slots' = [slots EXCEPT ![t] = DecIntClone(slots[s], g)]
    /\ origin' = [origin EXCEPT ![t] = origin[s]]
    /\ last' = Call("clone", t, "ok", NoView)
    /\ UNCHANGED input

\* An accessor is called on the handle in slot s; nothing of it changes.
Access(s, op, view) ==
    /\ slots[s] # NoHandle
    /\ last' = Call(op, s, IF view.sound THEN "ok" ELSE "undefined", view)
    /\ UNCHANGED <<input, slots, origin>>

AsStr(s) == Access(s, "as_str", as_str(slots[s]))

AsCStr(s) == Access(s, "as_c_str", as_c_str(slots[s]))

AsBytesWithNul(s) == Access(s, "as_bytes_with_nul", as_bytes_with_nul(slots[s]))

AsBytes(s) == Access(s, "as_bytes", as_bytes(slots[s]))

AsRef(s) == Access(s, "as_ref", as_ref(slots[s]))

DebugFmt(s) == Access(s, "fmt", fmt(slots[s]))

Accessors(s) ==
    \/ AsStr(s)
    \/ AsCStr(s)
    \/ AsBytesWithNul(s)
    \/ AsBytes(s)
    \/ AsRef(s)
    \/ DebugFmt(s)

\* One handle is made from the integer and read.
Next ==
    \/ New(1)
    \/ FromFd(1)
    \/ Accessors(1)

Spec == Init /\ [][Next]_vars

\* Several handles are made from one integer, afresh or as clones, and read.
InitPair ==
    /\ input \in PairInputs
    /\ slots = [s \in Slots |-> NoHandle]
    /\ origin = [s \in Slots |-> "none"]
    /\ last = Call("none", 0, "none", NoView)

NextPair ==
    \E s \in Slots :
        \/ New(s)
        \/ FromFd(s)
        \/ \E t \in Slots : Clone(s, t)
        \/ Accessors(s)

SpecPair == InitPair /\ [][NextPair]_vars

\* ------------------------------------------------------------------------
\* What the properties are stated with
\* ------------------------------------------------------------------------

Live == {s \in Slots : slots[s] # NoHandle}

Constructors == {"new", "from_fd"}

Digits == 48..57

\* i < 0, read off the type and the bit pattern.
Negative(i) == i.ty \in SignedTypes /\ i.bits[1] >= 128

\* a + b + c on byte sequences of one length, with the carry out.
RECURSIVE AddC(_, _, _)
AddC(a, b, c) ==
    IF a = <<>> THEN [val |-> <<>>, carry |-> c]
    ELSE LET t    == Last(a) + Last(b) + c
             rest == AddC(Front(a), Front(b), t \div 256)
         IN  [val |-> Append(rest.val, t % 256), carry |-> rest.carry]

\* The number a digit string denotes, in the bytes of acc, and whether it
\* outgrew them.
RECURSIVE Horner(_, _, _)
Horner(digits, acc, overflow) ==
    IF digits = <<>> THEN [val |-> acc, overflow |-> overflow]
    ELSE LET next == MulAdd(acc, 10, Head(digits) - Zero)
         IN  Horner(Tail(digits), next.val, overflow \/ next.carry # 0)

\* text is the decimal string of i: an optional '-', then digits with no
\* leading zero, denoting the magnitude of i.
StdDecimal(i, text) ==
    LET B      == Len(i.bits)
        signed == text # <<>> /\ text[1] = Minus
        digits == IF signed THEN Tail(text) ELSE text
        m      == Horner(digits, Fill(B, 0), FALSE)
    IN  /\ signed <=> Negative(i)
        /\ digits # <<>>
        /\ \A j \in 1..Len(digits) : digits[j] \in Digits
        /\ Len(digits) > 1 => digits[1] # Zero
        /\ ~m.overflow
        /\ IF Negative(i)
           THEN AddC(m.val, i.bits, 0) = [val |-> Fill(B, 0), carry |-> 1]
           ELSE m.val = i.bits

\* <T as FromStr>::from_str(text): an optional sign ('-' for a signed type
\* only), then digits, accumulated with checked arithmetic.
ParseInt(T, B, text) ==
    LET err      == [ok |-> FALSE, bits |-> <<>>]
        sign     == text # <<>> /\ (text[1] = 43 \/ (text[1] = Minus /\ T \in SignedTypes))
        positive == ~(sign /\ text[1] = Minus)
        digits   == IF sign THEN Tail(text) ELSE text
        m        == Horner(digits, Fill(B, 0), FALSE)
    IN  IF digits = <<>> \/ \E j \in 1..Len(digits) : digits[j] \notin Digits
        THEN err
        ELSE IF m.overflow THEN err
        ELSE IF positive
        THEN IF T \in SignedTypes /\ m.val[1] >= 128 THEN err
             ELSE [ok |-> TRUE, bits |-> m.val]
        ELSE IF m.val[1] >= 128 /\ m.val # SignedMin(B) THEN err
             ELSE [ok |-> TRUE, bits |-> WrappingNeg(m.val)]

I64Min == [ty |-> "i64", ptr |-> 64, bits |-> SignedMin(8)]

\* "-9223372036854775808"
I64MinText ==
    <<45, 57, 50, 50, 51, 51, 55, 50, 48, 51, 54, 56, 53, 52, 55, 55, 53, 56, 48, 56>>

\* The bytes of every view of a handle.
AllViews(h) ==
    <<as_str(h).bytes, as_bytes(h).bytes, as_bytes_with_nul(h).bytes,
      as_c_str(h).bytes, as_ref(h).bytes, fmt(h).bytes>>

ViewOf(op, h) ==
    CASE op = "as_str"            -> as_str(h)
      [] op = "as_bytes"          -> as_bytes(h)
      [] op = "as_bytes_with_nul" -> as_bytes_with_nul(h)
      [] op = "as_c_str"          -> as_c_str(h)
      [] op = "as_ref"            -> as_ref(h)
      [] op = "fmt"               -> fmt(h)

AccessorNames ==
    {"as_str", "as_bytes", "as_bytes_with_nul", "as_c_str", "as_ref", "fmt"}

\* ------------------------------------------------------------------------
\* The properties
\* ------------------------------------------------------------------------

\* C1: for every integer i of a supported type, DecInt::new(i).as_str() is
\* the standard decimal string of i: ASCII digits, a single leading '-'
\* exactly when i < 0, no '+', no leading zeros except "0" itself; 9876 gives
\* "9876", -42 gives "-42", 0 gives "0".
C1_AsStrIsDecimal ==
    /\ \A s \in Live :
        LET text == as_str(slots[s]).bytes
        IN  /\ StdDecimal(input, text)
            /\ Len(input.bits) > 1 /\ input.bits = Doc9876(Len(input.bits))
                 => text = <<57, 56, 55, 54>>
            /\ Negative(input) /\ input.bits = MinusFortyTwo(Len(input.bits))
                 => text = <<Minus, 52, 50>>
            /\ IsZero(input.bits) => text = <<Zero>>
    /\ last.op = "as_str" => StdDecimal(input, last.view.bytes)

\* as_str() has returned "-42".
C1_Witness ==
    /\ last.op = "as_str"
    /\ last.view.bytes = <<Minus, 52, 50>>

\* C2 as stated: construction cannot fail for any supported width, 8, 16, 32,
\* 64, 128 or the pointer's, signed or unsigned: DecInt::new returns a fully
\* initialized handle whose text is shorter than the 21-byte buffer, and the
\* capacity assertion does not fail.
C2_NewNeverFails ==
    /\ last.op \in Constructors =>
         /\ last.outcome = "ok"
         /\ slots[last.slot] # NoHandle
    /\ \A s \in Live : slots[s].len < BufLen

\* C2 as amended: that holds for the widths 8, 16, 32, 64 and the pointer's;
\* of a 128-bit type it holds for the values whose text is at most 20 bytes,
\* and for every other 128-bit value the capacity assertion fails and no
\* handle is returned.
C2_NewFailsOnlyOnLong128 ==
    LET fits == TypeBits(input.ty, input.ptr) <= 64
                \/ Len(Format(input.ty, input.bits)) < BufLen
    IN  /\ last.op \in Constructors =>
             IF fits
             THEN last.outcome = "ok" /\ slots[last.slot] # NoHandle
             ELSE last.outcome = "panic_unsupported" /\ slots[last.slot] = NoHandle
        /\ \A s \in Live : fits /\ slots[s].len < BufLen

\* DecInt::new has returned a handle for a 128-bit value of 20 digits.
C2_Witness ==
    /\ input.ty = "u128"
    /\ last.op = "new"
    /\ last.outcome = "ok"
    /\ slots[1].len = 20

\* C3: in every handle, exactly the buffer bytes at indices 0..=len are
\* initialized, and every accessor reads only indices 0..=len: the
\* uninitialized tail is never observed.
C3_TailNeverRead ==
    /\ \A s \in Live :
        LET h == slots[s]
        IN  /\ \A j \in 1..Len(h.buf) : h.buf[j].init <=> j - 1 <= h.len
            /\ \A op \in AccessorNames :
                  /\ ViewOf(op, h).reads \subseteq 0..h.len
                  /\ \A k \in ViewOf(op, h).reads : h.buf[k + 1].init
                  /\ ViewOf(op, h).sound
    /\ last.op \in AccessorNames =>
          /\ last.view.reads = 0..slots[last.slot].len
          /\ last.outcome = "ok"

\* The Debug rendering has been taken of a handle whose buffer has an
\* uninitialized tail holding a digit.
C3_Witness ==
    /\ last.op = "fmt"
    /\ slots[1].len < 10
    /\ slots[1].buf[BufLen] = Uninit(55)

\* C4: as_bytes_with_nul() (and as_c_str()) is the bytes of as_str() followed
\* by exactly one 0 byte: the byte at index len is 0, is the last of the view,
\* and no byte below len is 0, so the CStr check of as_c_str holds.
C4_NulTerminated ==
    /\ \A s \in Live :
        LET h == slots[s]
            b == as_bytes_with_nul(h).bytes
        IN  /\ b = as_str(h).bytes \o <<Nul>>
            /\ as_c_str(h).bytes = b
            /\ h.buf[h.len + 1] = Written(Nul)
            /\ Len(b) = h.len + 1
            /\ \A j \in 1..h.len : h.buf[j].val # Nul
            /\ FromBytesWithNulIsOk(b)
            /\ as_c_str(h).sound
    /\ last.op \in {"as_c_str", "as_bytes_with_nul"} =>
          /\ last.outcome = "ok"
          /\ Last(last.view.bytes) = Nul
          /\ StdDecimal(input, Front(last.view.bytes))

\* as_c_str() has returned a text of 20 bytes and its terminator.
C4_Witness ==
    /\ last.op = "as_c_str"
    /\ Len(last.view.bytes) = BufLen

\* C5: every value of a type of at most 64 bits formats to at most 20 bytes,
\* so len <= capacity - 1 = 20 in every handle and the capacity assertion
\* never fails; i64::MIN formats to "-9223372036854775808", 20 bytes, with the
\* terminator at index 20.
C5_UpTo64BitsFit ==
    TypeBits(input.ty, input.ptr) <= 64 =>
        /\ Len(Format(input.ty, input.bits)) <= 20
        /\ last.op \in Constructors =>
              last.outcome = "ok" /\ slots[last.slot] # NoHandle
        /\ \A s \in Live :
              /\ slots[s].len <= BufLen - 1
              /\ BufLen - 1 = 20
              /\ input = I64Min =>
                    /\ as_str(slots[s]).bytes = I64MinText
                    /\ slots[s].len = 20
                    /\ slots[s].buf[21] = Written(Nul)

\* DecInt::new(i64::MIN) has returned.
C5_Witness ==
    /\ input = I64Min
    /\ last.op = "new"
    /\ slots[1] # NoHandle

\* C6: parsing DecInt::new(i).as_str() as a decimal integer of i's type
\* yields i, for every i including 0, 1, -1, the minimum and the maximum.
C6_RoundTrip ==
    /\ \A s \in Live :
          ParseInt(input.ty, Len(input.bits), as_str(slots[s]).bytes)
              = [ok |-> TRUE, bits |-> input.bits]
    /\ last.op = "as_str" =>
          ParseInt(input.ty, Len(input.bits), last.view.bytes)
              = [ok |-> TRUE, bits |-> input.bits]

\* as_str() has returned the text of i32's minimum.
C6_Witness ==
    /\ input.ty = "i32"
    /\ input.bits = SignedMin(4)
    /\ last.op = "as_str"

\* C7: the views of one handle agree: as_bytes() is as_bytes_with_nul()
\* without its last byte, has length len and the bytes of as_str(); the Path
\* view and the Debug rendering are built from those same bytes.
C7_ViewsAgree ==
    /\ \A s \in Live :
        LET h == slots[s]
            b == as_bytes(h).bytes
        IN  /\ b \o <<Last(as_bytes_with_nul(h).bytes)>> = as_bytes_with_nul(h).bytes
            /\ Len(b) = h.len
            /\ b = [j \in 1..h.len |-> h.buf[j].val]
            /\ b = as_str(h).bytes
            /\ as_ref(h).bytes = b
            /\ fmt(h).bytes = <<34>> \o b \o <<34>>
    /\ last.op \in {"as_bytes", "as_str", "as_ref"} =>
          last.view.bytes = Format(input.ty, input.bits)
    /\ last.op = "fmt" =>
          last.view.bytes = <<34>> \o Format(input.ty, input.bits) \o <<34>>

\* The Path view has been taken of a handle of a negative value.
C7_Witness ==
    /\ last.op = "as_ref"
    /\ Negative(input)
    /\ Len(last.view.bytes) > 1

\* C8: DecInt::from_fd(fd) has the len and the views of DecInt::new(r), r
\* the raw integer of fd.
C8_FromFdIsNewOfRaw ==
    \A s, t \in Live :
        origin[s] = "from_fd" /\ origin[t] = "new" =>
            /\ slots[s].len = slots[t].len
            /\ AllViews(slots[s]) = AllViews(slots[t])

\* One handle is from a descriptor of a negative raw value (such as
\* AT_FDCWD), the other from DecInt::new of that value.
C8_Witness ==
    /\ Negative(input)
    /\ \E s, t \in Live : origin[s] = "from_fd" /\ origin[t] = "new"

\* C9: two handles made from the same integer, independently or one as a
\* clone of the other, have equal len and are byte for byte identical in
\* every view, whatever their uninitialized tails hold.
C9_Deterministic ==
    \A s, t \in Live :
        /\ slots[s].len = slots[t].len
        /\ AllViews(slots[s]) = AllViews(slots[t])
        /\ last.op \in AccessorNames => last.view.bytes = ViewOf(last.op, slots[s]).bytes

\* A handle has been cloned, and the clone's tail differs from its own.
C9_Witness ==
    /\ last.op = "clone"
    /\ slots[1] # NoHandle
    /\ slots[2] # NoHandle
    /\ slots[1].len < 10
    /\ slots[1].buf # slots[2].buf

\* C10: the width-specific bound of DecInt::new is never exceeded: for each
\* of the twelve types and every value, the unsigned maximum included, the
\* text is at most as long as the signed minimum's for that width (4, 6, 11,
\* 20, 40 for 8, 16, 32, 64, 128 bits), so `unreachable_unchecked` and both
\* `unreachable!()` arms are never reached.
C10_BoundNeverExceeded ==
    LET bits == TypeBits(input.ty, input.ptr)
        n    == Len(Format(input.ty, input.bits))
    IN  /\ bits \in {8, 16, 32, 64, 128}
        /\ MaxBufSize(bits) =
              (CASE bits = 8 -> 4 [] bits = 16 -> 6 [] bits = 32 -> 11
                 [] bits = 64 -> 20 [] bits = 128 -> 40)
        /\ n <= MaxBufSize(bits)
        /\ Negative(input) /\ input.bits = SignedMin(Len(input.bits))
              => n = MaxBufSize(bits)
        /\ last.op \in Constructors =>
              last.outcome \notin {"undefined", "panic_unreachable"}

\* DecInt::new(u64::MAX) has returned: 20 bytes, the bound of its width.
C10_Witness ==
    /\ input.ty = "u64"
    /\ input.bits = Fill(8, 255)
    /\ last.op = "new"
    /\ slots[1].len = MaxBufSize(64)

====
